---- MODULE Spec2Model ----
(***************************************************************************)
(* Model of src/bot.py: a long-polling Telegram bot that identifies a      *)
(* client by phone or e-mail, looks the client up in KeyCRM, replies, and  *)
(* appends a note to the first matched buyer.                              *)
(*                                                                         *)
(* Strings are sequences of one-character strings, so that the prefix      *)
(* test, the digit filter and the e-mail pattern are computed as the code  *)
(* computes them.                                                          *)
(***************************************************************************)
EXTENDS Integers, Sequences, FiniteSets, TLC

(* ------------------------------ bounds -------------------------------- *)

\* number of updates the chat platform produces in one run
MaxUpdates == 2

\* longest run of digits in a text handed to _normalize_phone
MaxDigits == 13

\* most records in a list handed to _format_crm_message
MaxRecords == 7

\* largest total handed to _format_crm_message
MaxTotal == 8

(* --------------------------- string helpers --------------------------- *)

AsciiDigits == {"0", "1", "2", "3", "4", "5", "6", "7", "8", "9"}

\* a decimal digit outside ASCII (ARABIC-INDIC DIGIT THREE): a str pattern
\* of re is Unicode-aware, so \d matches it and \D does not
ArabicThree == "U+0663"

\* the characters \d matches
DecimalDigits == AsciiDigits \cup {ArabicThree}

Whitespace == {" ", "\n", "\t"}

\* str.startswith
StartsWith(s, p) ==
    /\ Len(s) >= Len(p)
    /\ \A i \in 1..Len(p) : s[i] = p[i]

\* re.sub(r"\D", "", raw): keep the digits, in order
RECURSIVE DigitsOf(_)
DigitsOf(s) ==
    IF s = <<>> THEN <<>>
    ELSE IF Head(s) \in DecimalDigits THEN <<Head(s)>> \o DigitsOf(Tail(s))
    ELSE DigitsOf(Tail(s))

\* str.lstrip(chars)
RECURSIVE LStrip(_, _)
LStrip(s, chars) ==
    IF s # <<>> /\ Head(s) \in chars THEN LStrip(Tail(s), chars) ELSE s

\* str.rstrip(chars)
RECURSIVE RStrip(_, _)
RStrip(s, chars) ==
    IF s # <<>> /\ s[Len(s)] \in chars
    THEN RStrip(SubSeq(s, 1, Len(s) - 1), chars) ELSE s

\* str.strip()
Strip(s) == RStrip(LStrip(s, Whitespace), Whitespace)

\* one character of str.lower()
LowerChar(c) ==
    CASE c = "A" -> "a"
      [] c = "B" -> "b"
      [] c = "C" -> "c"
      [] OTHER   -> c

\* str.lower()
Lower(s) == [i \in 1..Len(s) |-> LowerChar(s[i])]

\* the absent value (None); also the result of a normaliser that does not match
None == <<"None">>

(* --------------------------- the normalisers -------------------------- *)

\* _normalize_phone with the leading 0 of a 10-digit number kept
_normalize_phone_KeepsZero(raw) ==
    LET digits == DigitsOf(raw) IN
    IF Len(digits) = 12 /\ StartsWith(digits, <<"3", "8", "0">>)
        THEN <<"+">> \o digits
    ELSE IF Len(digits) = 10 /\ StartsWith(digits, <<"0">>)
        THEN <<"+", "3", "8", "0">> \o digits
    ELSE IF Len(digits) = 9
        THEN <<"+", "3", "8", "0">> \o digits
    ELSE IF Len(digits) = 11 /\ StartsWith(digits, <<"8", "0">>)
        THEN <<"+", "3">> \o digits
    ELSE None

\* _normalize_phone
_normalize_phone(raw) ==
    LET digits == DigitsOf(raw) IN
    IF Len(digits) = 12 /\ StartsWith(digits, <<"3", "8", "0">>)
        THEN <<"+">> \o digits
    ELSE IF Len(digits) = 10 /\ StartsWith(digits, <<"0">>)
        THEN <<"+", "3", "8", "0">> \o Tail(digits)
    ELSE IF Len(digits) = 9
        THEN <<"+", "3", "8", "0">> \o digits
    ELSE IF Len(digits) = 11 /\ StartsWith(digits, <<"8", "0">>)
        THEN <<"+", "3">> \o digits
    ELSE None

\* re.match(r"^[^@\s]+@[^@\s]+\.[^@\s]+$", candidate)
EmailPattern(c) ==
    /\ \A i \in 1..Len(c) : c[i] \notin Whitespace
    /\ Cardinality({i \in 1..Len(c) : c[i] = "@"}) = 1
    /\ \E i \in 2..Len(c) :
          /\ c[i] = "@"
          /\ \E j \in (i + 2)..(Len(c) - 1) : c[j] = "."

\* _normalize_email
_normalize_email(raw) ==
    LET candidate == Strip(raw) IN
    IF EmailPattern(candidate) THEN Lower(candidate) ELSE None

(* ------------------------- the CRM (KeyCRM) --------------------------- *)

\* buyer records the CRM can return; id 0 stands for a record without an id
BuyerA ==
    [id |-> 7, full_name |-> "Test Testovych", manager |-> "Olena",
     email |-> <<"t@b.c", "", "u@b.c">>, phone |-> <<"+380991234567">>,
     birthday |-> "", company |-> "Firma",
     shipping |-> << <<"Khreshchatyk 1", "", "Kyiv", "", "01001", "">>,
                     <<"", "", "", "", "", "">> >>,
     custom_fields |-> <<[uuid |-> "", value |-> "vip"],
                         [uuid |-> "CT_1", value |-> ""]>>]
BuyerNoId ==
    [id |-> 0, full_name |-> "", manager |-> "", email |-> <<>>, phone |-> <<>>,
     birthday |-> "1990-01-01", company |-> "", shipping |-> <<>>,
     custom_fields |-> <<>>]

\* what one GET /buyer can do: fail in urlopen or json.load (kind # "ok"), or
\* decode to {data, total}; dataNull is "data": null, hasTotal FALSE is a
\* payload without "total"
Resp(kind, data, dataNull, total, hasTotal) ==
    [kind |-> kind, data |-> data, dataNull |-> dataNull,
     total |-> total, hasTotal |-> hasTotal]

CrmFailures ==
    { Resp(k, <<>>, FALSE, 0, FALSE) : k \in {"neterr", "http", "badjson"} }

CrmAnswers ==
    { Resp("ok", <<>>, FALSE, 0, TRUE),
      Resp("ok", <<>>, TRUE, 0, FALSE),
      Resp("ok", <<BuyerA>>, FALSE, 1, TRUE),
      Resp("ok", <<BuyerNoId, BuyerA>>, FALSE, 3, TRUE) }

CrmOutcomes == CrmFailures \cup CrmAnswers

\* the outcome standing for "no request was made"
NoOutcome == Resp("none", <<>>, FALSE, 0, FALSE)

\* _fetch_keycrm without its "except Exception": a failed request raises
_fetch_keycrm_Propagates(token, outcome) ==
    IF ~token
        THEN [sent |-> FALSE, parsed |-> FALSE, body |-> NoOutcome, raised |-> FALSE]
    ELSE IF outcome.kind # "ok"
        THEN [sent |-> TRUE, parsed |-> FALSE, body |-> outcome, raised |-> TRUE]
    ELSE [sent |-> TRUE, parsed |-> TRUE, body |-> outcome, raised |-> FALSE]

\* _fetch_keycrm without its test of the token: the request always goes out
_fetch_keycrm_NoTokenCheck(token, outcome) ==
    IF outcome.kind # "ok"
        THEN [sent |-> TRUE, parsed |-> FALSE, body |-> outcome, raised |-> FALSE]
    ELSE [sent |-> TRUE, parsed |-> TRUE, body |-> outcome, raised |-> FALSE]

\* _fetch_keycrm: None without a token (no request is sent) and on any
\* exception of the request; else the parsed payload
_fetch_keycrm(token, outcome) ==
    IF ~token
        THEN [sent |-> FALSE, parsed |-> FALSE, body |-> NoOutcome, raised |-> FALSE]
    ELSE IF outcome.kind # "ok"
        THEN [sent |-> TRUE, parsed |-> FALSE, body |-> outcome, raised |-> FALSE]
    ELSE [sent |-> TRUE, parsed |-> TRUE, body |-> outcome, raised |-> FALSE]

\* _lookup_buyers; the event records the call and whether a request went out
_lookup_buyers(token, filter_field, value, outcome) ==
    LET result == _fetch_keycrm(token, outcome)
        buyers == IF ~result.parsed \/ result.body.dataNull
                  THEN <<>> ELSE result.body.data
        total  == IF ~result.parsed \/ ~result.body.hasTotal
                  THEN 0 ELSE result.body.total
    IN [buyers |-> buyers, total |-> total, raised |-> result.raised,
        event |-> [op |-> "lookup", field |-> filter_field, value |-> value,
                   sent |-> result.sent, failed |-> result.sent /\ ~result.parsed,
                   buyers |-> buyers, total |-> total]]

\* the candidate list with the value without "+" put first
PhoneVariants_PlainFirst(phone) ==
    IF phone = <<>> THEN <<>>
    ELSE LET plain == LStrip(phone, {"+"}) IN
         (IF plain # phone THEN <<plain>> ELSE <<>>)
         \o <<phone>>
         \o (IF ~StartsWith(phone, <<"+">>) /\ StartsWith(phone, <<"3", "8", "0">>)
             THEN <<<<"+">> \o phone>> ELSE <<>>)

\* the candidate list built by _lookup_phone_with_fallbacks
PhoneVariants(phone) ==
    IF phone = <<>> THEN <<>>
    ELSE LET plain == LStrip(phone, {"+"}) IN
         <<phone>>
         \o (IF plain # phone THEN <<plain>> ELSE <<>>)
         \o (IF ~StartsWith(phone, <<"+">>) /\ StartsWith(phone, <<"3", "8", "0">>)
             THEN <<<<"+">> \o phone>> ELSE <<>>)

\* the for loop of _lookup_phone_with_fallbacks over the remaining variants;
\* outcomes[i] is what the i-th request does
RECURSIVE TryVariants(_, _, _)
TryVariants(token, variants, outcomes) ==
    IF variants = <<>>
    THEN [buyers |-> <<>>, total |-> 0, events |-> <<>>, raised |-> FALSE]
    ELSE LET r == _lookup_buyers(token, "buyer_phone", Head(variants), Head(outcomes)) IN
         IF r.raised \/ r.total # 0
         THEN [buyers |-> r.buyers, total |-> r.total, events |-> <<r.event>>,
               raised |-> r.raised]
         ELSE LET rest == TryVariants(token, Tail(variants), Tail(outcomes)) IN
              [buyers |-> rest.buyers, total |-> rest.total,
               events |-> <<r.event>> \o rest.events, raised |-> rest.raised]

\* _lookup_phone_with_fallbacks
_lookup_phone_with_fallbacks(token, phone, outcomes) ==
    TryVariants(token, PhoneVariants(phone), outcomes)

(* --------------------------- the formatter ---------------------------- *)

\* buyers[:5]
DisplayCap == 5

NOT_FOUND == <<[line |-> "not_found", n |-> 0, text |-> ""]>>
UNAVAILABLE == <<[line |-> "unavailable", n |-> 0, text |-> ""]>>

\* ", ".join([v for v in values if v])
RECURSIVE Join(_)
Join(values) ==
    IF values = <<>> THEN ""
    ELSE LET rest == Join(Tail(values)) IN
         IF Head(values) = "" THEN rest
         ELSE IF rest = "" THEN Head(values)
         ELSE Head(values) \o ", " \o rest

Line(kind, idx, text) == [line |-> kind, n |-> idx, text |-> text]

\* a line that is appended only when its text is not empty
Optional(kind, idx, text) ==
    IF text # "" THEN <<Line(kind, idx, text)>> ELSE <<>>

\* _format_shipping over the items left of (shipping or [])[:3]; an item is
\* the sequence of its six address parts
RECURSIVE _format_shipping(_, _)
_format_shipping(shipping, idx) ==
    IF shipping = <<>> THEN <<>>
    ELSE Optional("address", idx, Join(Head(shipping)))
         \o _format_shipping(Tail(shipping), idx)

\* the for loop of _format_custom_fields: one line per field with a value
RECURSIVE CustomLines(_, _)
CustomLines(custom_fields, idx) ==
    IF custom_fields = <<>> THEN <<>>
    ELSE LET cf == Head(custom_fields)
             uuid == IF cf.uuid # "" THEN cf.uuid ELSE "pole" IN
         (IF cf.value # ""
          THEN <<Line("custom", idx, uuid \o ": " \o cf.value)>> ELSE <<>>)
         \o CustomLines(Tail(custom_fields), idx)

\* seq[:k]
Take(seq, k) == SubSeq(seq, 1, IF Len(seq) < k THEN Len(seq) ELSE k)

\* _format_custom_fields: lines[:5]
_format_custom_fields(custom_fields, idx) ==
    Take(CustomLines(custom_fields, idx), 5)

\* the block of one buyer: client and manager, then the lines whose value is
\* present
Block(idx, buyer) ==
    LET cf_lines == _format_custom_fields(buyer.custom_fields, idx) IN
    << Line("client", idx,
            IF buyer.full_name # "" THEN buyer.full_name ELSE "Bez imeni"),
       Line("manager", idx,
            IF buyer.manager # "" THEN buyer.manager ELSE "ne pryznachenyi") >>
    \o Optional("email", idx, Join(buyer.email))
    \o Optional("phone", idx, Join(buyer.phone))
    \o Optional("birthday", idx, buyer.birthday)
    \o Optional("company", idx, buyer.company)
    \o _format_shipping(Take(buyer.shipping, 3), idx)
    \o (IF cf_lines # <<>>
        THEN <<Line("custom_header", idx, "")>> \o cf_lines ELSE <<>>)

RECURSIVE Blocks(_, _)
Blocks(buyers, idx) ==
    IF idx > Len(buyers) \/ idx > DisplayCap THEN <<>>
    ELSE Block(idx, buyers[idx]) \o Blocks(buyers, idx + 1)

\* _format_crm_message with the first test made on total
_format_crm_message_ByTotal(token, buyers, total) ==
    IF total = 0
    THEN IF token THEN NOT_FOUND ELSE UNAVAILABLE
    ELSE <<Line("header", total, IF total = 1 THEN "zbih" ELSE "zbihiv")>>
         \o Blocks(buyers, 1)
         \o (IF total > Len(buyers) THEN <<Line("footer", 0, "")>> ELSE <<>>)

\* _format_crm_message
_format_crm_message(token, buyers, total) ==
    IF buyers = <<>>
    THEN IF token THEN NOT_FOUND ELSE UNAVAILABLE
    ELSE <<Line("header", total, IF total = 1 THEN "zbih" ELSE "zbihiv")>>
         \o Blocks(buyers, 1)
         \o (IF total > Len(buyers) THEN <<Line("footer", 0, "")>> ELSE <<>>)

(* -------------------------- the note updater -------------------------- *)

\* _update_buyer_note_for_first: the PUT is attempted only with a token, a
\* non-empty list and a first record that has an id; its failure is caught
_update_buyer_note_for_first(token, buyers, message, putOk) ==
    IF ~token \/ buyers = <<>> THEN [events |-> <<>>, raised |-> FALSE]
    ELSE IF buyers[1].id = 0 THEN [events |-> <<>>, raised |-> FALSE]
    ELSE [events |-> <<[op |-> "put", buyer_id |-> buyers[1].id,
                        note |-> message, ok |-> putOk]>>,
          raised |-> FALSE]

(* ----------------------- configuration (os.environ) -------------------- *)

DigitValue(c) ==
    CASE c = "0" -> 0 [] c = "1" -> 1 [] c = "2" -> 2 [] c = "3" -> 3
      [] c = "4" -> 4 [] c = "5" -> 5 [] c = "6" -> 6 [] c = "7" -> 7
      [] c = "8" -> 8 [] c = "9" -> 9

\* int(part) of a string of decimal digits
RECURSIVE IntOf(_)
IntOf(s) ==
    IF s = <<>> THEN 0
    ELSE 10 * IntOf(SubSeq(s, 1, Len(s) - 1)) + DigitValue(s[Len(s)])

\* whether int(part) succeeds (decimal digits only; otherwise ValueError)
IsInt(s) == s # <<>> /\ \A i \in 1..Len(s) : s[i] \in AsciiDigits

\* _allowed_chat_ids over the comma-separated parts of ALLOWED_CHAT_IDS
RECURSIVE _allowed_chat_ids(_)
_allowed_chat_ids(parts) ==
    IF parts = <<>> THEN {}
    ELSE LET part == Strip(Head(parts))
             rest == _allowed_chat_ids(Tail(parts)) IN
         IF part = <<>> THEN rest
         ELSE IF IsInt(part) THEN {IntOf(part)} \cup rest
         ELSE rest

\* "".split(",") when ALLOWED_CHAT_IDS is unset
RawUnset == << <<>> >>

\* " 111,abc,".split(",")
RawOne == << <<" ", "1", "1", "1">>, <<"a", "b", "c">>, <<>> >>

AllowedRaws == {RawUnset, RawOne}

(* ------------------------------ messages ------------------------------ *)

\* message.get("chat", {}).get("id") of an update without a message or chat
NoChatId == 0

ChatIds == {111, 222}

Phone10 == <<"0", "9", "9", "1", "2", "3", "4", "5", "6", "7">>
TextStart == <<"/", "s", "t", "a", "r", "t">>
TextStartPhone == TextStart \o <<" ">> \o Phone10
TextPhoneEmail ==
    <<"9", "9", "1", "2", "3", "4", "5", "6", "7", "@", "b", ".", "c">>
TextEmail == <<" ", "A", "@", "b", ".", "c">>
TextOther == <<"h", "i", "@">>

Texts == {TextStart, TextStartPhone, Phone10, TextPhoneEmail, TextEmail, TextOther}

Msg(chat, text, contact) == [chat |-> chat, text |-> text, contact |-> contact]

\* the updates the chat platform can deliver: no message at all, a message
\* without a chat, text messages, a message without text (a sticker), a
\* shared contact
Messages ==
    { Msg(NoChatId, <<>>, <<>>), Msg(NoChatId, Phone10, <<>>) }
    \cup { Msg(111, t, <<>>) : t \in Texts }
    \cup { Msg(222, t, <<>>) : t \in {TextStart, Phone10} }
    \cup { Msg(111, <<>>, k) : k \in {<<>>, Phone10} }

(* ------------------------------- replies ------------------------------ *)

Reply(kind, ident, crm) == [kind |-> kind, ident |-> ident, crm |-> crm]

ACCESS_DENIED == Reply("denied", <<>>, <<>>)
WELCOME_TEXT == Reply("welcome", <<>>, <<>>)
PROMPT == Reply("prompt", <<>>, <<>>)

\* _call_api(token, "sendMessage", ...): raises when the request fails
SendMessage(text, sendOk) ==
    [events |-> <<[op |-> "send", text |-> text, ok |-> sendOk]>>,
     raised |-> ~sendOk]

(* ------------------------ one update (main body) ---------------------- *)

\* a step that does nothing and does not raise
Nothing == [events |-> <<>>, raised |-> FALSE]

\* sequencing: b runs only if a did not raise
Then(a, b) ==
    IF a.raised THEN [events |-> a.events, raised |-> TRUE]
    ELSE [events |-> a.events \o b.events, raised |-> b.raised]

\* the assignment with the "+ 1" applied twice
NextOffset_Skips(off, update_id) == update_id + 2

\* the assignment without the "+ 1"
NextOffset_Stale(off, update_id) == update_id

\* offset = update.get("update_id", offset) + 1
NextOffset(off, update_id) == update_id + 1

\* the access check without its "allowed_ids and"
AccessDenied_NoListCheck(allowed, chat_id) ==
    chat_id # NoChatId /\ chat_id \notin allowed

\* the access check without its test of chat_id
AccessDenied_NoChatCheck(allowed, chat_id) ==
    allowed # {} /\ chat_id \notin allowed

\* if allowed_ids and chat_id and chat_id not in allowed_ids
AccessDenied(allowed, chat_id) ==
    allowed # {} /\ chat_id # NoChatId /\ chat_id \notin allowed

\* a branch of the if / elif chain, with the identifier it normalised
Branch(kind, ident) == [kind |-> kind, ident |-> ident]

\* the chain with the e-mail test moved above the phone test
Classify_EmailFirst(chat_id, text) ==
    IF StartsWith(text, TextStart) /\ chat_id # NoChatId
    THEN Branch("welcome", None)
    ELSE IF chat_id # NoChatId /\ text # <<>> THEN
        LET email == _normalize_email(text) IN
        IF email # None THEN Branch("email", email)
        ELSE LET normalized == _normalize_phone(text) IN
             IF normalized # None THEN Branch("phone", normalized)
             ELSE Branch("prompt", None)
    ELSE Branch("skip", None)

\* the if / elif chain that picks the branch of an update that was let in
Classify(chat_id, text) ==
    IF StartsWith(text, TextStart) /\ chat_id # NoChatId
    THEN Branch("welcome", None)
    ELSE IF chat_id # NoChatId /\ text # <<>> THEN
        LET normalized == _normalize_phone(text) IN
        IF normalized # None THEN Branch("phone", normalized)
        ELSE LET email == _normalize_email(text) IN
             IF email # None THEN Branch("email", email)
             ELSE Branch("prompt", None)
    ELSE Branch("skip", None)

\* the lookup an identifier branch runs
Lookup(token, kind, ident, outcomes) ==
    IF kind = "phone"
    THEN _lookup_phone_with_fallbacks(token, ident, outcomes)
    ELSE LET r == _lookup_buyers(token, "buyer_email", ident, Head(outcomes)) IN
         [buyers |-> r.buyers, total |-> r.total, events |-> <<r.event>>,
          raised |-> r.raised]

\* the note update moved in front of the reply
Identified_NoteFirst(token, kind, ident, outcomes, sendOk, putOk) ==
    LET lk == Lookup(token, kind, ident, outcomes)
        response_text ==
            Reply(kind, ident, _format_crm_message(token, lk.buyers, lk.total))
    IN Then([events |-> lk.events, raised |-> lk.raised],
            Then(IF lk.buyers # <<>>
                 THEN _update_buyer_note_for_first(token, lk.buyers,
                                                   response_text, putOk)
                 ELSE Nothing,
                 SendMessage(response_text, sendOk)))

\* the phone and e-mail branches: lookup, format, send, then the note
Identified(token, kind, ident, outcomes, sendOk, putOk) ==
    LET lk == Lookup(token, kind, ident, outcomes)
        response_text ==
            Reply(kind, ident, _format_crm_message(token, lk.buyers, lk.total))
    IN Then([events |-> lk.events, raised |-> lk.raised],
            Then(SendMessage(response_text, sendOk),
                 IF lk.buyers # <<>>
                 THEN _update_buyer_note_for_first(token, lk.buyers,
                                                   response_text, putOk)
                 ELSE Nothing))

\* the branches below the access check
Classified(token, m, outcomes, sendOk, putOk) ==
    LET br == Classify(m.chat, m.text) IN
    CASE br.kind = "welcome" -> SendMessage(WELCOME_TEXT, sendOk)
      [] br.kind \in {"phone", "email"} ->
            Identified(token, br.kind, br.ident, outcomes, sendOk, putOk)
      [] br.kind = "prompt" -> SendMessage(PROMPT, sendOk)
      [] OTHER -> Nothing

\* the body of "for update in updates" after the offset assignment
HandleUpdate(allowed, token, m, outcomes, sendOk, putOk) ==
    IF AccessDenied(allowed, m.chat)
    THEN SendMessage(ACCESS_DENIED, sendOk)
    ELSE Classified(token, m, outcomes, sendOk, putOk)

(* --------------------------- the state machine ------------------------ *)

VARIABLES
    botToken,      \* TELEGRAM_BOT_TOKEN is set
    keycrmToken,   \* KEYCRM_TOKEN is set
    allowedRaw,    \* ALLOWED_CHAT_IDS, split at the commas
    pc,            \* where main() is
    offset,        \* main's offset
    allowed_ids,   \* main's allowed_ids
    updates,       \* the list get_updates returned last (update ids)
    done,          \* how many elements of updates the for loop has taken
    pending,       \* update ids the chat platform holds unconfirmed
    nextId,        \* the id the platform gives its next update
    webhook,       \* outcome of the deleteWebhook attempt
    procs,         \* per update id: how often the for loop reached it
    sends,         \* per update id: sendMessage calls attempted
    last,          \* the update handled last: id, message, calls made, raised
    interrupted,   \* a KeyboardInterrupt was raised
    firstOffset,   \* the offset of the first getUpdates call, -1 before it
    call           \* a single call of one of the pure functions, see FnSpec

vars == <<botToken, keycrmToken, allowedRaw, pc, offset, allowed_ids, updates,
          done, pending, nextId, webhook, procs, sends, last, interrupted,
          firstOffset, call>>

config == <<botToken, keycrmToken, allowedRaw>>

UpdateIds == 1..MaxUpdates

\* no function call is under test in a run of main
NoCall == [fn |-> "none"]

NoLast == [uid |-> 0, msg |-> Msg(NoChatId, <<>>, <<>>), events |-> <<>>,
           raised |-> FALSE]

Init ==
    /\ botToken \in BOOLEAN
    /\ keycrmToken \in BOOLEAN
    /\ allowedRaw \in AllowedRaws
    /\ pc = "init"
    /\ offset = 0
    /\ allowed_ids = {}
    /\ updates = <<>>
    /\ done = 0
    /\ pending = {}
    /\ nextId = 1
    /\ webhook = "none"
    /\ procs = [u \in UpdateIds |-> 0]
    /\ sends = [u \in UpdateIds |-> 0]
    /\ last = NoLast
    /\ interrupted = FALSE
    /\ firstOffset = -1
    /\ call = NoCall

\* the exceptions a handler of main's try statement catches
Exceptions == {"URLError", "HTTPError", "Exception"}

\* main without its last "except Exception": an unexpected error ends it
ExceptTarget_NoSafetyNet(exc) ==
    IF exc \in {"KeyboardInterrupt", "Exception"} THEN "stopped" ELSE "error"

\* where the except clauses of main lead
ExceptTarget(exc) ==
    IF exc = "KeyboardInterrupt" THEN "stopped" ELSE "error"

\* the try statement placed inside the for loop: a raising update is skipped
LoopTarget_PerUpdateTry(raised, list, taken, exc) ==
    IF taken < Len(list) THEN "proc" ELSE "poll"

\* where main goes after a step of the try block: to an except clause when
\* the step raised (the rest of the list is abandoned), to the next element
\* of the for loop, or round "while True" to the next getUpdates
LoopTarget(raised, list, taken, exc) ==
    IF raised THEN ExceptTarget(exc)
    ELSE IF taken < Len(list) THEN "proc" ELSE "poll"

\* ascending list of a set of ids
RECURSIVE Ascending(_)
Ascending(S) ==
    IF S = {} THEN <<>>
    ELSE LET lo == CHOOSE x \in S : \A y \in S : x <= y IN
         <<lo>> \o Ascending(S \ {lo})

\* what the platform answers to getUpdates(offset): the unconfirmed updates
\* from offset on, in increasing update_id order
get_updates(off, held) == Ascending({u \in held : u >= off})

\* clear_webhook without its try: a failed deleteWebhook ends the process
clear_webhook_Raises(ok) ==
    [events |-> <<[op |-> "deleteWebhook", ok |-> ok]>>, raised |-> ~ok]

\* clear_webhook: one deleteWebhook call whose failure is caught and printed
clear_webhook(ok) ==
    [events |-> <<[op |-> "deleteWebhook", ok |-> ok]>>, raised |-> FALSE]

\* a user sends a message: the platform queues a new update
Arrive ==
    /\ nextId <= MaxUpdates
    /\ pending' = pending \cup {nextId}
    /\ nextId' = nextId + 1
    /\ UNCHANGED <<firstOffset, call, config, pc, offset, allowed_ids, updates, done, webhook,
                   procs, sends, last, interrupted>>

\* main up to the loop: _get_token (sys.exit without a token), offset = 0,
\* _allowed_chat_ids, clear_webhook (drops the pending updates when it
\* succeeds, its failure is caught)
Start ==
    /\ pc = "init"
    /\ IF ~botToken
       THEN /\ pc' = "exited"
            /\ UNCHANGED <<offset, allowed_ids, webhook, pending>>
       ELSE /\ offset' = 0
            /\ allowed_ids' = _allowed_chat_ids(allowedRaw)
            /\ \E ok \in BOOLEAN :
                  /\ webhook' = IF ok THEN "ok" ELSE "failed"
                  /\ pending' = IF ok THEN {} ELSE pending
                  /\ pc' = IF clear_webhook(ok).raised THEN "exited" ELSE "poll"
    /\ UNCHANGED <<firstOffset, call, config, updates, done, nextId, procs, sends,
                   last, interrupted>>

\* updates = get_updates(token, offset): the platform forgets the updates
\* below offset and returns the rest; a failed request raises
Poll ==
    /\ pc = "poll"
    /\ \/ /\ updates' = get_updates(offset, pending)
          /\ done' = 0
          /\ pending' = {u \in pending : u >= offset}
          /\ pc' = LoopTarget(FALSE, updates', 0, "none")
       \/ \E exc \in Exceptions :
          /\ pc' = LoopTarget(TRUE, updates, done, exc)
          /\ UNCHANGED <<updates, done, pending>>
    /\ firstOffset' = IF firstOffset = -1 THEN offset ELSE firstOffset
    /\ UNCHANGED <<call, config, offset, allowed_ids, nextId, webhook, procs, sends,
                   last, interrupted>>

\* number of events of one kind in a call list
Count(events, op) == Cardinality({i \in 1..Len(events) : events[i].op = op})

CountOk(events, op) ==
    Cardinality({i \in 1..Len(events) : events[i].op = op /\ events[i].ok})

\* number of CRM requests in a call list
Requests(events) ==
    Cardinality({i \in 1..Len(events) : events[i].op = "lookup" /\ events[i].sent})

\* the outcomes to draw for a request that is made, none for one that is not
Drawn(made, set) == IF made THEN set ELSE {NoOutcome}

Flags(made) == IF made THEN BOOLEAN ELSE {TRUE}

\* one iteration of "for update in updates".  The inputs are the update's
\* message and the outcome of each request its handling makes: at most two
\* CRM lookups (a phone and its variant without "+"), one sendMessage, one PUT
ProcessUpdate ==
    /\ pc = "proc"
    /\ done < Len(updates)
    /\ LET u == updates[done + 1] IN
       \E m \in Messages :
       LET none == <<NoOutcome, NoOutcome>>
           dry == HandleUpdate(allowed_ids, keycrmToken, m, none, TRUE, TRUE)
       IN
       \E a \in Drawn(Requests(dry.events) >= 1, CrmOutcomes) :
       \E b \in Drawn(Requests(HandleUpdate(allowed_ids, keycrmToken, m,
                                            <<a, NoOutcome>>, TRUE, TRUE).events) >= 2,
                      CrmOutcomes) :
       LET wet == HandleUpdate(allowed_ids, keycrmToken, m, <<a, b>>, TRUE, TRUE)
       IN
       \E sendOk \in Flags(Count(wet.events, "send") > 0) :
       \E putOk \in Flags(sendOk /\ Count(wet.events, "put") > 0) :
          LET h == HandleUpdate(allowed_ids, keycrmToken, m, <<a, b>>,
                                sendOk, putOk)
          IN /\ offset' = NextOffset(offset, u)
             /\ procs' = [procs EXCEPT ![u] = @ + 1]
             /\ sends' = [sends EXCEPT ![u] = @ + Count(h.events, "send")]
             /\ last' = [uid |-> u, msg |-> m, events |-> h.events,
                         raised |-> h.raised]
             /\ done' = done + 1
             /\ \E exc \in (IF h.raised THEN Exceptions ELSE {"none"}) :
                   pc' = LoopTarget(h.raised, updates, done + 1, exc)
    /\ UNCHANGED <<firstOffset, call, config, allowed_ids, updates, pending, nextId, webhook,
                   interrupted>>

\* the except clauses other than KeyboardInterrupt: time.sleep(3), then the
\* next turn of "while True"
Backoff ==
    /\ pc = "error"
    /\ pc' = "poll"
    /\ UNCHANGED <<firstOffset, call, config, offset, allowed_ids, updates, done, pending, nextId,
                   webhook, procs, sends, last, interrupted>>

\* Ctrl+C: caught by "except KeyboardInterrupt" inside the try, and ending
\* the process from the sleep of an except clause
Interrupt ==
    /\ pc \in {"poll", "proc", "error"}
    /\ pc' = IF pc = "error" THEN "stopped" ELSE ExceptTarget("KeyboardInterrupt")
    /\ interrupted' = TRUE
    /\ UNCHANGED <<firstOffset, call, config, offset, allowed_ids, updates, done, pending, nextId,
                   webhook, procs, sends, last>>

Next ==
    \/ Arrive
    \/ Start
    \/ Poll
    \/ ProcessUpdate
    \/ Backoff
    \/ Interrupt

Spec == Init /\ [][Next]_vars

\* time.sleep(3) returns and the getUpdates request returns or times out
FairSpec ==
    /\ Spec
    /\ WF_vars(Backoff)
    /\ WF_vars(Poll)

(* ------------------- the pure functions, called alone ----------------- *)

\* the variables of main, which a call of a pure function leaves alone
mainVars == <<botToken, allowedRaw, pc, offset, allowed_ids, updates, done,
              pending, nextId, webhook, procs, sends, last, interrupted,
              firstOffset>>

\* the first n characters of a run of digits
DigitRun(kind, n) ==
    [i \in 1..n |->
        IF kind = "arabic" THEN ArabicThree
        ELSE <<"9", "9", "1", "2", "3", "4", "5", "6", "7", "8">>[((i - 1) % 10) + 1]]

\* what precedes the run: nothing, the national and international prefixes,
\* a foreign prefix
DigitPrefixes ==
    { <<>>, <<"0">>, <<"8", "0">>, <<"3", "8", "0">>, <<"+", "3", "8", "0">>,
      <<"1">>, <<"(", "0", "9", ")", " ">> }

\* punctuation or letters after the run
DigitSuffixes == { <<>>, <<"-", "x">> }

\* the texts _normalize_phone is called with
RawPhones ==
    { p \o DigitRun(kind, n) \o x :
        p \in DigitPrefixes, kind \in {"ascii", "arabic"}, n \in 0..MaxDigits,
        x \in DigitSuffixes }

Phone12 == <<"3", "8", "0">> \o Tail(Phone10)

\* the values _lookup_phone_with_fallbacks is called with: a normaliser
\* output, the same without "+", a national number, two "+", nothing
LookupPhones ==
    { <<"+">> \o Phone12, Phone12, Phone10, <<"+", "+">> \o Phone12, <<>> }

\* what a CRM request made by a lone call does
LookupOutcomes == CrmAnswers \cup {Resp("neterr", <<>>, FALSE, 0, FALSE)}

\* a list of n records
Records(n) == [i \in 1..n |-> IF i % 2 = 1 THEN BuyerA ELSE BuyerNoId]

FnCall(fn, arg) == [fn |-> fn, arg |-> arg, returned |-> FALSE, ret |-> None]

\* one call is about to be made, with its arguments chosen; KEYCRM_TOKEN is
\* set or not
FnInit ==
    /\ botToken = TRUE
    /\ keycrmToken \in BOOLEAN
    /\ allowedRaw = RawUnset
    /\ pc = "init"
    /\ offset = 0
    /\ allowed_ids = {}
    /\ updates = <<>>
    /\ done = 0
    /\ pending = {}
    /\ nextId = 1
    /\ webhook = "none"
    /\ procs = [u \in UpdateIds |-> 0]
    /\ sends = [u \in UpdateIds |-> 0]
    /\ last = NoLast
    /\ interrupted = FALSE
    /\ firstOffset = -1
    /\ \/ \E raw \in RawPhones : call = FnCall("_normalize_phone", raw)
       \/ \E phone \in LookupPhones :
          \E a \in LookupOutcomes : \E b \in LookupOutcomes :
             call = FnCall("_lookup_phone_with_fallbacks",
                           [phone |-> phone, outcomes |-> <<a, b>>])
       \/ \E n \in 0..MaxRecords : \E total \in 0..MaxTotal :
             call = FnCall("_format_crm_message",
                           [buyers |-> Records(n), total |-> total])

Returns(ret) == call' = [call EXCEPT !.returned = TRUE, !.ret = ret]

Call_normalize_phone ==
    /\ call.fn = "_normalize_phone"
    /\ ~call.returned
    /\ Returns(_normalize_phone(call.arg))
    /\ UNCHANGED <<mainVars, keycrmToken>>

Call_lookup_phone_with_fallbacks ==
    /\ call.fn = "_lookup_phone_with_fallbacks"
    /\ ~call.returned
    /\ Returns(_lookup_phone_with_fallbacks(keycrmToken, call.arg.phone,
                                            call.arg.outcomes))
    /\ UNCHANGED <<mainVars, keycrmToken>>

Call_format_crm_message ==
    /\ call.fn = "_format_crm_message"
    /\ ~call.returned
    /\ Returns(_format_crm_message(keycrmToken, call.arg.buyers,
                                   call.arg.total))
    /\ UNCHANGED <<mainVars, keycrmToken>>

FnNext ==
    \/ Call_normalize_phone
    \/ Call_lookup_phone_with_fallbacks
    \/ Call_format_crm_message

FnSpec == FnInit /\ [][FnNext]_vars

(* ------------------------------- claims ------------------------------- *)

\* the update ids the for loop has read
Consumed == {u \in UpdateIds : procs[u] > 0}

Highest(S) == CHOOSE x \in S : \A y \in S : x >= y

\* C1: the polling offset never decreases, and once an update has been read
\* it is one past the highest update_id read so far, so that no getUpdates is
\* issued with an offset at or below an update_id already consumed
C1_OffsetOnePastHighest ==
    /\ [][offset' >= offset]_vars
    /\ [](Consumed # {} =>
            /\ offset = 1 + Highest(Consumed)
            /\ \A u \in Consumed : offset > u)

\* two updates were read, the reply to one of them raised, and the loop is
\* back at getUpdates
C1_Witness ==
    /\ pc = "poll"
    /\ Consumed = {1, 2}
    /\ last.raised
    /\ offset = 3

\* the access-denied case of an update, stated on its message
IsDenied(m) ==
    allowed_ids # {} /\ m.chat # NoChatId /\ m.chat \notin allowed_ids

\* C2: at most one sendMessage is attempted per update_id over any sequence
\* of polls, failures and retries, and the access-denied path makes its one
\* send and no other call
C2_AtMostOneSend ==
    /\ \A u \in UpdateIds : sends[u] <= 1
    /\ (last.uid # 0 /\ IsDenied(last.msg)) =>
          /\ Len(last.events) = 1
          /\ last.events[1].op = "send"
          /\ last.events[1].text = ACCESS_DENIED

\* a reply raised, the loop backed off and polled again, and the update
\* whose reply failed still has one attempted send
C2_Witness ==
    /\ sends[1] = 1
    /\ procs[2] = 1
    /\ last.uid = 2
    /\ \E k \in 1..Len(updates) : updates[k] = 2
    /\ \A k \in 1..Len(updates) : updates[k] # 1
    /\ pc = "poll"

\* the update handled last had a chat id and passed the access check
LetIn == last.uid # 0 /\ last.msg.chat # NoChatId /\ ~IsDenied(last.msg)

\* positions of the calls of one kind made for the update handled last
Calls(op) == {i \in 1..Len(last.events) : last.events[i].op = op}

\* C3: every update that carries a message with a chat id gets exactly one
\* delivered reply, whatever its content.  Stated on the update the loop has
\* just handled and moved its offset past
C3_ExactlyOneReply ==
    (last.uid # 0 /\ last.msg.chat # NoChatId) =>
        CountOk(last.events, "send") = 1

\* C4 as claimed: once the iteration over a polled batch is over, the offset
\* is one past the last update of the batch, whether or not a reply raised
C4_OffsetPastBatch ==
    (pc \in {"poll", "error"} /\ updates # <<>>) =>
        offset = updates[Len(updates)] + 1

\* C4 as amended: once the iteration over a polled batch is over, the offset
\* is one past the last update the for loop reached, which is the last of the
\* batch unless a reply raised earlier; the loop goes on to the next update
\* only after a handling that did not raise
C4_OffsetPastLastReached ==
    /\ (pc \in {"poll", "error"} /\ updates # <<>>) =>
          /\ done >= 1
          /\ last.uid = updates[done]
          /\ offset = updates[done] + 1
          /\ (done < Len(updates) => last.raised)
    /\ (pc = "proc" /\ done >= 1) =>
          /\ ~last.raised
          /\ offset = updates[done] + 1

\* the reply to the first of two polled updates raised: the iteration is over
\* with the offset one past the first
C4_Witness ==
    /\ pc = "error"
    /\ Len(updates) = 2
    /\ done = 1
    /\ last.raised
    /\ offset = updates[1] + 1

\* C5 as claimed, for the update handled last: after a failure, an update
\* that has not been answered is still at or above the offset and held by
\* the platform, so that a later poll redelivers it
C5_UnansweredRedelivered ==
    (pc = "error" /\ last.uid # 0 /\ CountOk(last.events, "send") = 0
        /\ Count(last.events, "send") = 1) =>
        (last.uid >= offset /\ last.uid \in pending)

\* a step after which every update the platform held is still held or read
KeepsUnread == \A u \in pending : u \in pending' \/ procs'[u] > 0

\* C5 as amended: every update the for loop has not read is at or above the
\* offset, the loop never makes the platform drop an unread update, and an
\* update that was read is below the offset from then on
C5_UnreadRedelivered ==
    /\ [](\A u \in pending \ Consumed : u >= offset)
    /\ [][pc # "init" => KeepsUnread]_vars
    /\ [](last.uid # 0 => last.uid < offset)

\* a reply raised with an update of the batch still unread: the unread update
\* is held by the platform at or above the offset, the failed one is below
C5_Witness ==
    /\ pc = "error"
    /\ last.raised
    /\ done < Len(updates)
    /\ updates[done + 1] \in pending
    /\ updates[done + 1] >= offset
    /\ last.uid = offset - 1

\* C6: with a non-empty allow-list, an update from a chat outside it gets the
\* access-denied text and no other call (no CRM lookup, no note update); with
\* an empty allow-list no update gets the access-denied text
C6_AccessControl ==
    /\ (last.uid # 0 /\ allowed_ids # {} /\ last.msg.chat # NoChatId
          /\ last.msg.chat \notin allowed_ids) =>
          /\ Calls("lookup") = {}
          /\ Calls("put") = {}
          /\ \A i \in Calls("send") : last.events[i].text = ACCESS_DENIED
          /\ Cardinality(Calls("send")) = 1
    /\ allowed_ids = {} =>
          \A i \in Calls("send") : last.events[i].text # ACCESS_DENIED

\* a phone number sent from a chat outside the allow-list was answered with
\* the access-denied text
C6_Witness ==
    /\ allowed_ids = {111}
    /\ last.msg = Msg(222, Phone10, <<>>)
    /\ keycrmToken
    /\ \E i \in Calls("send") : last.events[i].ok

\* C7: a text is classified in the order /start, phone, e-mail, prompt, and
\* exactly one branch answers
C7_ClassificationOrder ==
    LetIn =>
      LET t == last.msg.text
          start == StartsWith(t, TextStart)
          phone == _normalize_phone(t)
          email == _normalize_email(t)
          ev == last.events
      IN /\ start =>
              /\ Len(ev) = 1
              /\ ev[1].op = "send" /\ ev[1].text = WELCOME_TEXT
         /\ (~start /\ phone # None) =>
              /\ Calls("lookup") # {}
              /\ \A i \in Calls("lookup") : ev[i].field = "buyer_phone"
              /\ Cardinality(Calls("send")) = 1
              /\ \A i \in Calls("send") :
                    ev[i].text.kind = "phone" /\ ev[i].text.ident = phone
         /\ (~start /\ phone = None /\ email # None) =>
              /\ Cardinality(Calls("lookup")) = 1
              /\ \A i \in Calls("lookup") :
                    ev[i].field = "buyer_email" /\ ev[i].value = email
              /\ Cardinality(Calls("send")) = 1
              /\ \A i \in Calls("send") :
                    ev[i].text.kind = "email" /\ ev[i].text.ident = email
         /\ (~start /\ phone = None /\ email = None /\ t # <<>>) =>
              /\ Len(ev) = 1
              /\ ev[1].op = "send" /\ ev[1].text = PROMPT

\* a text that is both a phone number and an e-mail address was looked up
\* and answered as a phone number
C7_Witness ==
    /\ LetIn
    /\ last.msg.text = TextPhoneEmail
    /\ _normalize_email(last.msg.text) # None
    /\ \E i \in Calls("send") : last.events[i].text.kind = "phone"

\* C8: a message with a shared contact and no /start text has the contact's
\* phone number normalised, looked up, and answered with the lookup reply
C8_ContactLookedUp ==
    (LetIn /\ last.msg.contact # <<>> /\ ~StartsWith(last.msg.text, TextStart)) =>
        /\ \E i \in Calls("lookup") :
              /\ last.events[i].field = "buyer_phone"
              /\ last.events[i].value = _normalize_phone(last.msg.contact)
        /\ \E i \in Calls("send") :
              /\ last.events[i].text.kind = "phone"
              /\ last.events[i].text.ident = _normalize_phone(last.msg.contact)

\* a step that does not leave the loop other than to the stopped state
StaysInLoop ==
    pc \in {"poll", "proc", "error"} =>
        pc' \in {"poll", "proc", "error", "stopped"}

\* C9: only a keyboard interrupt stops the loop, nothing else leaves it, and
\* the backoff after a failure always leads back to getUpdates
C9_LoopNeverTerminates ==
    /\ [](pc = "stopped" => interrupted)
    /\ [][StaysInLoop]_vars
    /\ (pc = "error" ~> (pc = "poll" \/ pc = "stopped"))

\* a reply raised and the loop is at getUpdates again, not interrupted
C9_Witness ==
    /\ pc = "poll"
    /\ last.raised
    /\ ~interrupted
    /\ done < Len(updates)

\* the update handled last was let in with a text that normalises
Identifiable ==
    /\ LetIn
    /\ ~StartsWith(last.msg.text, TextStart)
    /\ \/ _normalize_phone(last.msg.text) # None
       \/ _normalize_email(last.msg.text) # None

PutFailed(l) ==
    \E i \in 1..Len(l.events) : l.events[i].op = "put" /\ ~l.events[i].ok

LookupsFailed ==
    /\ Calls("lookup") # {}
    /\ \A i \in Calls("lookup") : last.events[i].sent /\ last.events[i].failed

\* C11: whenever the CRM lookup of an update fails (every request made for it
\* failed), the reply carries the "CRM check unavailable" text, not the "not
\* found" text, whether or not a CRM token is configured
C11_OutageSaysUnavailable ==
    (Identifiable /\ LookupsFailed) =>
        \A i \in Calls("send") :
            /\ last.events[i].text.crm = UNAVAILABLE
            /\ last.events[i].text.crm # NOT_FOUND

\* the lookup whose result the handler used: the last one made
UsedLookup(i) ==
    /\ i \in Calls("lookup")
    /\ \A k \in Calls("lookup") : k <= i

\* C12: a note update (PUT) is attempted for an update only after the reply
\* send of that update succeeded, only when the lookup returned at least one
\* record, at most once, and for the first returned record; if the reply
\* send fails no note update is attempted
C12_ReplyBeforeNote ==
    /\ Cardinality(Calls("put")) <= 1
    /\ \A i \in Calls("put") :
          /\ \E j \in Calls("send") : j < i /\ last.events[j].ok
          /\ \E k \in Calls("lookup") :
                /\ UsedLookup(k)
                /\ k < i
                /\ last.events[k].buyers # <<>>
                /\ last.events[i].buyer_id = last.events[k].buyers[1].id
    /\ (\E j \in Calls("send") : ~last.events[j].ok) => Calls("put") = {}
    /\ \A u \in UpdateIds : procs[u] <= 1

\* the reply to a found buyer went out and the note update followed it
C12_Witness ==
    /\ \E i \in Calls("put") :
          /\ last.events[i].buyer_id = BuyerA.id
          /\ \E j \in Calls("send") : j < i /\ last.events[j].ok
    /\ Cardinality(Calls("lookup")) = 2

Returned(fn) == call.fn = fn /\ call.returned

\* the candidates of a phone value in the order the claim gives them
CandidateOrder(phone) ==
    LET stripped == LStrip(phone, {"+"}) IN
    <<phone>>
    \o (IF stripped # phone THEN <<stripped>> ELSE <<>>)
    \o (IF phone[1] # "+" /\ StartsWith(phone, <<"3", "8", "0">>)
        THEN <<<<"+">> \o phone>> ELSE <<>>)

\* C13: _lookup_phone_with_fallbacks queries its candidates in the fixed
\* order (the value as given, the value without leading "+", the value with
\* "+" put in front when it has none and starts with 380), queries nothing
\* after the first candidate whose total is not zero and returns that
\* candidate's records and total, returns no records and 0 when every
\* candidate has total 0, and makes at most two queries for a value that
\* starts with "+"
C13_FallbackOrder ==
    (Returned("_lookup_phone_with_fallbacks") /\ call.arg.phone # <<>>) =>
        LET phone == call.arg.phone
            ev == call.ret.events
            order == CandidateOrder(phone)
        IN /\ Len(ev) >= 1
           /\ Len(ev) <= Len(order)
           /\ \A i \in 1..Len(ev) :
                 /\ ev[i].op = "lookup"
                 /\ ev[i].field = "buyer_phone"
                 /\ ev[i].value = order[i]
           /\ \A i \in 1..(Len(ev) - 1) : ev[i].total = 0
           /\ IF ev[Len(ev)].total # 0
              THEN /\ call.ret.buyers = ev[Len(ev)].buyers
                   /\ call.ret.total = ev[Len(ev)].total
              ELSE /\ Len(ev) = Len(order)
                   /\ call.ret.buyers = <<>>
                   /\ call.ret.total = 0
           /\ StartsWith(phone, <<"+">>) => Len(ev) <= 2
           /\ ~call.ret.raised

\* a value without "+" that starts with 380 found nothing as given and a
\* buyer with "+" in front
C13_Witness ==
    /\ Returned("_lookup_phone_with_fallbacks")
    /\ call.arg.phone = Phone12
    /\ Len(call.ret.events) = 2
    /\ call.ret.events[2].value = <<"+">> \o Phone12
    /\ call.ret.events[1].sent
    /\ call.ret.total = 1
    /\ call.ret.buyers = <<BuyerA>>

\* the four digit shapes _normalize_phone accepts
PhoneShape(digits) ==
    \/ Len(digits) = 9
    \/ Len(digits) = 10 /\ digits[1] = "0"
    \/ Len(digits) = 11 /\ SubSeq(digits, 1, 2) = <<"8", "0">>
    \/ Len(digits) = 12 /\ SubSeq(digits, 1, 3) = <<"3", "8", "0">>

\* C14: for every input whose digits, once everything else is stripped, are
\* 9 digits, or 10 with a leading 0, or 11 with a leading 80, or 12 with a
\* leading 380, _normalize_phone returns "+380" followed by exactly 9 digits,
\* 13 characters in all; for every other input it returns no match
C14_NormalizePhoneShapes ==
    Returned("_normalize_phone") =>
        IF PhoneShape(DigitsOf(call.arg))
        THEN /\ Len(call.ret) = 13
             /\ SubSeq(call.ret, 1, 4) = <<"+", "3", "8", "0">>
             /\ \A i \in 5..13 : call.ret[i] \in DecimalDigits
        ELSE call.ret = None

\* a national number written with brackets, a space and a suffix
C14_Witness ==
    /\ Returned("_normalize_phone")
    /\ call.arg = <<"(", "0", "9", ")", " ">> \o DigitRun("ascii", 8) \o <<"-", "x">>
    /\ call.ret = <<"+", "3", "8", "0", "9">> \o DigitRun("ascii", 8)

\* the number of detail blocks of a formatted message
BlocksShown(message) ==
    Cardinality({i \in 1..Len(message) : message[i].line = "client"})

\* C15: for a non-empty list of n records and any total the message has
\* exactly min(n, 5) detail blocks and ends with the "first records shown"
\* footer whenever total exceeds the number of blocks shown
C15_CapAndFooter ==
    (Returned("_format_crm_message") /\ call.arg.buyers # <<>>) =>
        LET n == Len(call.arg.buyers)
            shown == BlocksShown(call.ret)
        IN /\ shown = IF n < DisplayCap THEN n ELSE DisplayCap
           /\ call.arg.total > shown =>
                 call.ret[Len(call.ret)].line = "footer"

\* C16: for an empty record list _format_crm_message returns the "CRM check
\* unavailable" text without a CRM token and the "not found" text with one,
\* whatever total is; it returns one of the two only for an empty list
C16_EmptyListTexts ==
    Returned("_format_crm_message") =>
        /\ call.arg.buyers = <<>> =>
              call.ret = IF keycrmToken THEN NOT_FOUND ELSE UNAVAILABLE
        /\ call.ret \in {NOT_FOUND, UNAVAILABLE} => call.arg.buyers = <<>>

\* an empty list with a total that is not zero, a token configured
C16_Witness ==
    /\ Returned("_format_crm_message")
    /\ call.arg.buyers = <<>>
    /\ call.arg.total = MaxTotal
    /\ keycrmToken
    /\ call.ret = NOT_FOUND

\* what a step of the startup may do: the one step out of "init" either
\* exits (no bot token) or attempts deleteWebhook and enters the loop at
\* getUpdates with offset 0, whatever the attempt's outcome; deleteWebhook
\* is not attempted again
StartupStep ==
    /\ webhook # "none" => webhook' = webhook
    /\ (pc = "init" /\ pc' # "init") =>
          IF botToken
          THEN webhook' \in {"ok", "failed"} /\ pc' = "poll" /\ offset' = 0
          ELSE pc' = "exited" /\ webhook' = "none"

\* C17: with a bot token deleteWebhook is attempted exactly once, before the
\* first getUpdates; the first getUpdates is issued with offset 0, whether
\* deleteWebhook succeeded or failed; with no bot token the process exits
\* before any call to the chat platform or the CRM and never enters the loop
C17_StartupOrder ==
    /\ [](firstOffset # -1 => firstOffset = 0 /\ webhook \in {"ok", "failed"})
    /\ [](pc \notin {"init", "exited"} => botToken /\ webhook # "none")
    /\ [](~botToken =>
            /\ pc \in {"init", "exited"}
            /\ webhook = "none"
            /\ firstOffset = -1
            /\ last = NoLast
            /\ \A u \in UpdateIds : procs[u] = 0 /\ sends[u] = 0)
    /\ [][StartupStep]_vars
    /\ (webhook \in {"ok", "failed"}) ~> (firstOffset = 0 \/ interrupted)

\* deleteWebhook failed and the first getUpdates was issued all the same
C17_Witness ==
    /\ webhook = "failed"
    /\ firstOffset = 0
    /\ pc = "proc"

\* C18: with no CRM token no request is ever sent to the CRM, neither a
\* lookup nor a note update, every lookup yields no records and total 0, and
\* the reply to a normalised phone or e-mail carries the "CRM check
\* unavailable" text
C18_NoTokenNoCrmTraffic ==
    ~keycrmToken =>
        /\ \A i \in Calls("lookup") :
              /\ ~last.events[i].sent
              /\ last.events[i].buyers = <<>>
              /\ last.events[i].total = 0
        /\ Calls("put") = {}
        /\ Identifiable =>
              /\ Calls("lookup") # {}
              /\ Cardinality(Calls("send")) = 1
              /\ \A i \in Calls("send") : last.events[i].text.crm = UNAVAILABLE

\* a phone number was answered without a CRM token
C18_Witness ==
    /\ ~keycrmToken
    /\ Identifiable
    /\ _normalize_phone(last.msg.text) # None
    /\ Cardinality(Calls("lookup")) = 2
    /\ \E i \in Calls("send") :
          last.events[i].ok /\ last.events[i].text.crm = UNAVAILABLE

\* a step that handles an update without a chat id moves the offset past it
\* and goes on with the batch
SkipStep ==
    (procs' # procs /\ last'.msg.chat = NoChatId) =>
        /\ offset' = last'.uid + 1
        /\ procs'[last'.uid] = procs[last'.uid] + 1
        /\ sends' = sends
        /\ pc' = IF done' < Len(updates') THEN "proc" ELSE "poll"

\* C19: an update without a chat id (no message, or a message without one)
\* is skipped: no sendMessage, no CRM lookup, no note update, with or without
\* an allow-list; the offset still advances to its update_id + 1 and the
\* following updates of the batch are processed in the same iteration
C19_NoChatSkipped ==
    /\ []((last.uid # 0 /\ last.msg.chat = NoChatId) =>
            /\ last.events = <<>>
            /\ ~last.raised
            /\ offset = last.uid + 1)
    /\ [][SkipStep]_vars

\* with an allow-list configured, an update without a chat id whose text is a
\* phone number was skipped and the next update of the batch is up
C19_Witness ==
    /\ allowed_ids # {}
    /\ last.uid = 1
    /\ last.msg = Msg(NoChatId, Phone10, <<>>)
    /\ offset = 2
    /\ pc = "proc"
    /\ done < Len(updates)

\* a step that handles an update whose reply send raises leaves the for loop
\* with the offset one past that update; the rest of the batch is unread and
\* still held by the platform
AbandonStep ==
    (procs' # procs /\ last'.raised) =>
        /\ pc' = "error"
        /\ offset' = last'.uid + 1
        /\ \E i \in 1..Len(last'.events) :
              last'.events[i].op = "send" /\ ~last'.events[i].ok
        /\ \A k \in (done' + 1)..Len(updates') :
              /\ procs'[updates'[k]] = 0
              /\ updates'[k] \in pending'
              /\ updates'[k] >= offset'

\* a getUpdates request that returned
PollReturned == pc = "poll" /\ pc' \in {"poll", "proc"} /\ nextId' = nextId

\* the first poll that returns after a raising reply does not bring the
\* raising update again and brings every update the abandoned batch left
\* unread, none of which has been processed
RefetchStep ==
    (PollReturned /\ last.raised) =>
        /\ \A j \in 1..Len(updates') :
              updates'[j] # last.uid /\ procs[updates'[j]] = 0
        /\ \A k \in (done + 1)..Len(updates) :
              \E j \in 1..Len(updates') : updates'[j] = updates[k]

\* C20: when the reply send for update u of a batch raises, the rest of the
\* batch is abandoned in that iteration with offset u + 1; u is never
\* processed or answered again; every later update of the batch is fetched
\* again by the next poll that returns; no update is processed twice
C20_FailedSendAbandonsBatch ==
    /\ [](\A u \in UpdateIds : procs[u] <= 1 /\ sends[u] <= 1)
    /\ [](last.raised => offset = last.uid + 1 /\ procs[last.uid] = 1)
    /\ [][AbandonStep]_vars
    /\ [][RefetchStep]_vars

\* the reply to update 1 raised and the next poll that returned brought
\* update 2 without update 1
C20_Witness ==
    /\ last.uid = 1
    /\ last.raised
    /\ pc = "proc"
    /\ done = 0
    /\ updates = <<2>>
    /\ procs = [u \in UpdateIds |-> IF u = 1 THEN 1 ELSE 0]
    /\ offset = 2

====
